---------------------------- MODULE Spec2Model ----------------------------
(***************************************************************************)
(* Model of the air pollution dashboard script (src/app.py).               *)
(*                                                                         *)
(* The script is re-executed from top to bottom on every widget change.    *)
(* load_data() turns the raw CSV into the wide table df, the long table    *)
(* df_long and the list year_cols; the rest of the script derives the      *)
(* filtered views and the aggregates from them and from the three sidebar  *)
(* selections.                                                             *)
(*                                                                         *)
(* Strings (labels, city and country names, raw CSV cells) are sequences   *)
(* of characters, so that str.isdigit, int(), numeric parsing and sorted() *)
(* are computed and not assumed.  An ASCII character is a one-character    *)
(* string; a character outside ASCII is written by its code point, as in   *)
(* "U+0663".  A number is a fraction [n |-> .., d |-> ..] in lowest terms  *)
(* with d > 0: floats are taken as exact and finite.  A numeric cell or a  *)
(* mean is <<>> (NaN) or <<q>> with q a number.                            *)
(***************************************************************************)
EXTENDS Integers, Sequences, FiniteSets, TLC

\* --------------------------------------------------------------- bounds
\* largest number of data rows of the raw CSV
MaxRows == 2
\* largest N of the top-N ranking explored on its own
MaxN == 2
\* largest per-country mean of the aggregates the ranking is applied to
MaxVal == 2

\* the N of the dashboard's top-N chart: .head(10)
TopCount == 10

VARIABLES
    pc,                      \* "start" before the first run, then "ready"
    raw,                     \* the CSV file: [header, rows]
    cache,                   \* what st.cache_data keeps of load_data()'s result
    df, df_long, year_cols,  \* what load_data() returned
    selected_year, selected_country, selected_city,
    session,                 \* widget key -> value of the city selectboxes rendered in the last run
    city_options,
    df_filtered, df_long_filtered, df_country_filtered,
    country_mean_all_years,  \* the sorted per-country all-years series
    kpi,                     \* highest/lowest country and value, global mean, number of countries
    global_trend,
    country_year, top10,
    tn_pc, tn_in, tn_n, tn_out, tn_again   \* the ranking applied on its own

vars == << pc, raw, cache, df, df_long, year_cols, selected_year, selected_country,
           selected_city, session, city_options, df_filtered, df_long_filtered,
           df_country_filtered, country_mean_all_years, kpi, global_trend,
           country_year, top10, tn_pc, tn_in, tn_n, tn_out, tn_again >>

appVars == << pc, raw, cache, df, df_long, year_cols, selected_year, selected_country,
              selected_city, session, city_options, df_filtered, df_long_filtered,
              df_country_filtered, country_mean_all_years, kpi, global_trend,
              country_year, top10 >>

tnVars == << tn_pc, tn_in, tn_n, tn_out, tn_again >>

\* ------------------------------------------------------------- strings
\* code point of a character (Python compares strings by code point)
Ord(c) ==
    CASE c = " " -> 32 [] c = "+" -> 43 [] c = "-" -> 45
      [] c = "." -> 46 [] c = "/" -> 47 [] c = "0" -> 48
      [] c = "1" -> 49 [] c = "2" -> 50 [] c = "3" -> 51
      [] c = "4" -> 52 [] c = "5" -> 53 [] c = "6" -> 54
      [] c = "7" -> 55 [] c = "8" -> 56 [] c = "9" -> 57
      [] c = "A" -> 65 [] c = "E" -> 69 [] c = "N" -> 78
      [] c = "X" -> 88 [] c = "Y" -> 89 [] c = "Z" -> 90
      [] c = "_" -> 95 [] c = "a" -> 97 [] c = "b" -> 98
      [] c = "c" -> 99 [] c = "e" -> 101 [] c = "i" -> 105
      [] c = "l" -> 108 [] c = "n" -> 110 [] c = "o" -> 111
      [] c = "t" -> 116 [] c = "x" -> 120 [] c = "y" -> 121
      [] c = "U+00B2" -> 178 [] c = "U+00B3" -> 179 [] c = "U+00B9" -> 185
      [] c = "U+0660" -> 1632 [] c = "U+0661" -> 1633 [] c = "U+0662" -> 1634
      [] c = "U+0663" -> 1635 [] c = "U+0664" -> 1636 [] c = "U+0665" -> 1637
      [] c = "U+0666" -> 1638 [] c = "U+0667" -> 1639 [] c = "U+0668" -> 1640
      [] c = "U+0669" -> 1641 [] c = "U+FF10" -> 65296 [] c = "U+FF11" -> 65297
      [] c = "U+FF12" -> 65298 [] c = "U+FF13" -> 65299 [] c = "U+FF14" -> 65300
      [] c = "U+FF15" -> 65301 [] c = "U+FF16" -> 65302 [] c = "U+FF17" -> 65303
      [] c = "U+FF18" -> 65304 [] c = "U+FF19" -> 65305

AsciiDigits == {"0", "1", "2", "3", "4", "5", "6", "7", "8", "9"}

\* ARABIC-INDIC DIGIT ZERO .. NINE
ArabicIndicDigits ==
    {"U+0660", "U+0661", "U+0662", "U+0663", "U+0664"} \cup
    {"U+0665", "U+0666", "U+0667", "U+0668", "U+0669"}

\* FULLWIDTH DIGIT ZERO .. NINE
FullwidthDigits ==
    {"U+FF10", "U+FF11", "U+FF12", "U+FF13", "U+FF14"} \cup
    {"U+FF15", "U+FF16", "U+FF17", "U+FF18", "U+FF19"}

\* SUPERSCRIPT ONE, TWO, THREE: digits for str.isdigit, no decimal digits
SuperscriptDigits == {"U+00B9", "U+00B2", "U+00B3"}

\* the characters int() reads as a decimal digit: those of ASCII and of the
\* other scripts (of which the Arabic-Indic and the fullwidth ones are listed)
DecimalDigits == AsciiDigits \cup ArabicIndicDigits \cup FullwidthDigits

\* the characters str.isdigit accepts
Digits == DecimalDigits \cup SuperscriptDigits

\* the value of a decimal digit
DigitValue(c) ==
    IF c \in AsciiDigits THEN Ord(c) - 48
    ELSE IF c \in ArabicIndicDigits THEN Ord(c) - 1632
    ELSE Ord(c) - 65296

\* s < t for Python strings
RECURSIVE StrLess(_, _)
StrLess(s, t) ==
    IF t = << >> THEN FALSE
    ELSE IF s = << >> THEN TRUE
    ELSE IF Head(s) = Head(t) THEN StrLess(Tail(s), Tail(t))
    ELSE Ord(Head(s)) < Ord(Head(t))

\* sorted(S) for a collection of distinct strings
RECURSIVE Sorted(_)
Sorted(S) ==
    IF S = {} THEN << >>
    ELSE LET m == CHOOSE x \in S : \A y \in S \ {x} : StrLess(x, y)
         IN  << m >> \o Sorted(S \ {m})

\* c.isdigit()
IsDigit(s) == Len(s) > 0 /\ \A i \in 1..Len(s) : s[i] \in Digits

\* int(s) accepts the string: every character is a decimal digit (for the
\* strings str.isdigit accepts, which hold no sign, blank or underscore)
IsDecimal(s) == Len(s) > 0 /\ \A i \in 1..Len(s) : s[i] \in DecimalDigits

\* int(s) for a string of decimal digits
RECURSIVE StrToInt(_)
StrToInt(s) ==
    IF s = << >> THEN 0
    ELSE 10 * StrToInt(SubSeq(s, 1, Len(s) - 1)) + DigitValue(s[Len(s)])

cAll == << "A", "l", "l" >>
cNA  == << "N", "/", "A" >>

\* ------------------------------------------------------------- numbers
NaN == << >>

RECURSIVE GCD(_, _)
GCD(a, b) == IF b = 0 THEN a ELSE GCD(b, a % b)

\* the fraction n/d (d > 0) in lowest terms
Frac(n, d) ==
    LET g == GCD(IF n < 0 THEN -n ELSE n, d) IN [n |-> n \div g, d |-> d \div g]

RatLess(p, q) == p.n * q.d < q.n * p.d
RatLeq(p, q)  == p.n * q.d <= q.n * p.d
RatAdd(p, q)  == Frac(p.n * q.d + q.n * p.d, p.d * q.d)
Zero == Frac(0, 1)

RECURSIVE SumRat(_)
SumRat(s) == IF s = << >> THEN Zero ELSE RatAdd(Head(s)[1], SumRat(Tail(s)))

NotNa(s) == SelectSeq(s, LAMBDA v : v # NaN)

\* Series.mean() of numeric cells: NaN skipped, NaN when nothing is left
MeanOfCells(s) ==
    LET v == NotNa(s)
    IN  IF v = << >> THEN NaN
        ELSE LET t == SumRat(v) IN << Frac(t.n, t.d * Len(v)) >>

\* Series.mean() of a series of means
MeanOfMeans(s) == MeanOfCells(s)

Range(s) == {s[i] : i \in 1..Len(s)}
\* the column pm25 of a table
Pm25(s) == [i \in 1..Len(s) |-> s[i].pm25]
\* the column of year label c of a wide table
YearColumn(s, c) == [i \in 1..Len(s) |-> s[i].cells[c]]

\* ---------------------------------------------------------------- load
cCity    == << "c", "i", "t", "y" >>
cCountry == << "c", "o", "u", "n", "t", "r", "y" >>

\* the cell without the blanks before and after it
RECURSIVE Strip(_)
Strip(s) ==
    IF s = << >> THEN s
    ELSE IF Head(s) = " " THEN Strip(Tail(s))
    ELSE IF s[Len(s)] = " " THEN Strip(SubSeq(s, 1, Len(s) - 1))
    ELSE s

Signs == {"+", "-"}

\* the text after an optional sign
Unsigned(s) == IF s # << >> /\ Head(s) \in Signs THEN Tail(s) ELSE s

IsNegative(s) == s # << >> /\ Head(s) = "-"

\* the position of the first e or E, 0 when there is none
ExpAt(s) ==
    IF \E i \in 1..Len(s) : s[i] \in {"e", "E"}
    THEN CHOOSE i \in 1..Len(s) :
             s[i] \in {"e", "E"} /\ \A j \in 1..(i - 1) : s[j] \notin {"e", "E"}
    ELSE 0

\* the mantissa of an unsigned text, and its exponent part (after the e)
Mantissa(s) == IF ExpAt(s) = 0 THEN s ELSE SubSeq(s, 1, ExpAt(s) - 1)
ExpPart(s)  == IF ExpAt(s) = 0 THEN << >> ELSE SubSeq(s, ExpAt(s) + 1, Len(s))

AsciiDigitsOf(s) == SelectSeq(s, LAMBDA c : c \in AsciiDigits)

\* digits with at most one decimal point and at least one digit
IsMantissa(m) ==
    /\ \A i \in 1..Len(m) : m[i] \in AsciiDigits \cup {"."}
    /\ Cardinality({i \in 1..Len(m) : m[i] = "."}) <= 1
    /\ AsciiDigitsOf(m) # << >>

\* an optional sign and at least one digit
IsExponent(e) ==
    /\ Unsigned(e) # << >>
    /\ \A i \in 1..Len(Unsigned(e)) : Unsigned(e)[i] \in AsciiDigits

\* the text is a decimal number for the float parser of pandas: blanks
\* around it, a sign, digits with a decimal point, an exponent
IsNumber(tok) ==
    LET u == Unsigned(Strip(tok))
    IN  /\ IsMantissa(Mantissa(u))
        /\ ExpAt(u) # 0 => IsExponent(ExpPart(u))

\* the number of digits after the decimal point
Decimals(m) ==
    IF \E i \in 1..Len(m) : m[i] = "."
    THEN Len(m) - (CHOOSE i \in 1..Len(m) : m[i] = ".")
    ELSE 0

RECURSIVE Pow10(_)
Pow10(k) == IF k = 0 THEN 1 ELSE 10 * Pow10(k - 1)

\* the value of a text that is a number
NumberValue(tok) ==
    LET t  == Strip(tok)
        u  == Unsigned(t)
        m  == Mantissa(u)
        e  == ExpPart(u)
        ev == IF e = << >> THEN 0
              ELSE (IF IsNegative(e) THEN -1 ELSE 1) * StrToInt(Unsigned(e))
        k  == ev - Decimals(m)
        a  == (IF IsNegative(t) THEN -1 ELSE 1) * StrToInt(AsciiDigitsOf(m))
    IN  IF k >= 0 THEN Frac(a * Pow10(k), 1) ELSE Frac(a, Pow10(-k))

\* pd.read_csv + pd.to_numeric(errors="coerce") of one cell of a year column:
\* an empty field and a text that is no number become NaN
ToNumeric(tok) == IF IsNumber(tok) THEN << NumberValue(tok) >> ELSE NaN

\* the load without its zero-as-missing step
ReplaceZeroSkipped(v) == v

\* .replace(0, np.nan) of one cell
ReplaceZero(v) == IF v = << Zero >> THEN NaN ELSE v

\* year_cols = [c for c in df.columns if c.isdigit()]
YearCols(header) == SelectSeq(header, IsDigit)

\* the wide table after the conversion of its year columns
WideTable(file) ==
    LET yc == Range(YearCols(file.header))
    IN  [i \in 1..Len(file.rows) |->
            LET r == file.rows[i]
            IN  [city |-> r.city, country |-> r.country,
                 cells |-> [c \in DOMAIN r.cells |->
                               IF c \in yc THEN ReplaceZero(ToNumeric(r.cells[c]))
                               ELSE r.cells[c]]]]

\* a melt that leaves out the rows of absent cells
MeltDropNa(wide, yc) ==
    LET n == Len(wide)
    IN  SelectSeq([k \in 1..(n * Len(yc)) |->
                      LET col == yc[((k - 1) \div n) + 1]
                          r   == wide[((k - 1) % n) + 1]
                      IN  [city |-> r.city, country |-> r.country,
                           year |-> col, pm25 |-> r.cells[col]]],
                  LAMBDA e : e.pm25 # NaN)

\* df.melt(id_vars=["city", "country"], value_vars=year_cols, ...): the year
\* columns one after the other, the rows of the wide table within each
Melt(wide, yc) ==
    LET n == Len(wide)
    IN  [k \in 1..(n * Len(yc)) |->
            LET col == yc[((k - 1) \div n) + 1]
                r   == wide[((k - 1) % n) + 1]
            IN  [city |-> r.city, country |-> r.country,
                 year |-> col, pm25 |-> r.cells[col]]]

\* df_long["year"].astype(int) raises ValueError: a row of the long table
\* has a label int() does not accept
YearAsIntRaises(long) == \E k \in 1..Len(long) : ~IsDecimal(long[k].year)

\* df_long["year"] = df_long["year"].astype(int)
YearAsInt(long) ==
    [k \in 1..Len(long) |-> [long[k] EXCEPT !.year = StrToInt(long[k].year)]]

\* load_data() raises and returns nothing
LoadDataRaises(file) == YearAsIntRaises(Melt(WideTable(file), YearCols(file.header)))

\* load_data(): (df, df_long, year_cols), when it does not raise
LoadData(file) ==
    LET wide == WideTable(file)
        yc   == YearCols(file.header)
    IN  [df |-> wide, df_long |-> YearAsInt(Melt(wide, yc)), year_cols |-> yc]

\* ------------------------------------------------------------- sidebar
\* a city selectbox with one key for every country
CityKeyFixed(country) == << "c", "i", "t", "y" >>

\* key=f"city_{selected_country}"
CityKey(country) == << "c", "i", "t", "y", "_" >> \o country

\* st.sidebar.selectbox: the value the session holds for this widget, the
\* first option when the widget was not rendered in the previous run
Selectbox(state, key, options) ==
    IF key \in DOMAIN state THEN state[key] ELSE options[1]

\* sorted(df["country"].unique())
Countries(wide) == Sorted({wide[i].country : i \in 1..Len(wide)})

\* the cities of the rows of the selected country, sorted
CityOptions(wide, country) ==
    IF country = cAll
    THEN Sorted({wide[i].city : i \in 1..Len(wide)})
    ELSE Sorted({wide[i].city : i \in {j \in 1..Len(wide) : wide[j].country = country}})

\* ------------------------------------------------------- filtered views
FilterCountry(wide, country) ==
    IF country # cAll THEN SelectSeq(wide, LAMBDA r : r.country = country) ELSE wide

FilterCity(wide, city) ==
    IF city # cAll THEN SelectSeq(wide, LAMBDA r : r.city = city) ELSE wide

\* df_filtered
DfFiltered(wide, country, city) == FilterCity(FilterCountry(wide, country), city)

\* a join on the city alone
MatchesCityOnly(r, right) == SelectSeq(right, LAMBDA w : w.city = r.city)

\* the rows of right whose (city, country) is that of the long row r
Matches(r, right) ==
    SelectSeq(right, LAMBDA w : w.city = r.city /\ w.country = r.country)

\* df_long.merge(df_filtered[["city", "country"]], on=["city", "country"],
\* how="inner"): one output row per pair of a long row and a matching right
\* row, here in the order of the long table
RECURSIVE Merge(_, _)
Merge(long, right) ==
    IF long = << >> THEN << >>
    ELSE [j \in 1..Len(Matches(Head(long), right)) |-> Head(long)]
         \o Merge(Tail(long), right)

\* the merge result bound to the name df_long
DfLongRebound(long, filtered) == Merge(long, filtered)

\* the name df_long after lines 88-103: the views are bound to new names and
\* the merge returns a new frame, so df_long is what load_data() returned
DfLongAfterFilter(long, filtered) == long

\* the name df after lines 88-103: the filters act on df.copy()
DfAfterFilter(wide, filtered) == wide

\* ----------------------------------------------------------- aggregates
\* .dropna() of a series or of a frame with the value column pm25
DropNa(s) == SelectSeq(s, LAMBDA e : e.pm25 # NaN)

\* sorted list of a set of integers (groupby sorts its keys)
RECURSIVE SortedInts(_)
SortedInts(S) ==
    IF S = {} THEN << >>
    ELSE LET m == CHOOSE x \in S : \A y \in S : x <= y
         IN  << m >> \o SortedInts(S \ {m})

\* df_long.groupby("country")["pm25"].mean(): one entry per country, in the
\* order of the sorted keys, NaN for a country with no reading
GroupCountryMean(long) ==
    LET keys == Sorted({long[i].country : i \in 1..Len(long)})
    IN  [i \in 1..Len(keys) |->
            [country |-> keys[i],
             pm25 |-> MeanOfCells(Pm25(SelectSeq(long, LAMBDA r : r.country = keys[i])))]]

\* df_long.groupby("year")["pm25"].mean().reset_index().dropna()
GlobalTrend(long) ==
    LET keys == SortedInts({long[i].year : i \in 1..Len(long)})
    IN  DropNa([i \in 1..Len(keys) |->
            [year |-> keys[i],
             pm25 |-> MeanOfCells(Pm25(SelectSeq(long, LAMBDA r : r.year = keys[i])))]])

\* the aggregate with a country without reading kept as zero
CountryYearFillZero(wide, year) ==
    LET keys == Sorted({wide[i].country : i \in 1..Len(wide)})
    IN  [i \in 1..Len(keys) |->
            LET m == MeanOfCells(YearColumn(SelectSeq(wide, LAMBDA r : r.country = keys[i]), year))
            IN  [country |-> keys[i], pm25 |-> IF m = NaN THEN << Zero >> ELSE m]]

\* df_country_filtered.groupby("country")[selected_year].mean()
\*     .reset_index().rename(columns={selected_year: "pm25"}).dropna()
CountryYear(wide, year) ==
    LET keys == Sorted({wide[i].country : i \in 1..Len(wide)})
    IN  DropNa([i \in 1..Len(keys) |->
            [country |-> keys[i],
             pm25 |-> MeanOfCells(YearColumn(SelectSeq(wide, LAMBDA r : r.country = keys[i]), year))]])

\* the order of an ascending sort
BeforeAscending(a, b) == b = NaN \/ (a # NaN /\ RatLeq(a[1], b[1]))

\* a may stand before b in a descending sort (NaN last)
Before(a, b) == b = NaN \/ (a # NaN /\ RatLeq(b[1], a[1]))

Perms(n) == {p \in [1..n -> 1..n] : \A i, j \in 1..n : p[i] = p[j] => i = j}

\* the order q of the rows of s is descending
IsDescending(s, q) ==
    \A i \in 1..(Len(s) - 1) : Before(s[q[i]].pm25, s[q[i + 1]].pm25)

\* a sort that ends with equal values in reverse input order (an ascending
\* stable sort read backwards)
TiesReversed(s, q) ==
    \A i, j \in 1..Len(s) : i < j /\ s[q[i]].pm25 = s[q[j]].pm25 => q[i] > q[j]

\* rows already in descending order are left where they are, when there
\* are at most 16: no comparison of the sort finds a pair to exchange
KeepsSorted(s, q) ==
    (Len(s) <= 16 /\ IsDescending(s, [i \in 1..Len(s) |-> i]))
        => \A i \in 1..Len(s) : q[i] = i

\* sort_values("pm25", ascending=False) with the default kind="quicksort":
\* the result is in descending order.  quicksort is not a stable sort: the
\* order among equal values is any order (the insertion sort of numpy
\* keeps the input order, its vectorised sort does not), except that rows
\* already in order stay as they are.
SortValuesDesc(s) ==
    {[i \in 1..Len(s) |-> s[p[i]]] :
        p \in {q \in Perms(Len(s)) : IsDescending(s, q) /\ KeepsSorted(s, q)}}

\* .head(n)
HeadN(s, n) == SubSeq(s, 1, IF n < Len(s) THEN n ELSE Len(s))

\* sort_values("pm25", ascending=False).head(n): the possible results
TopN(s, n) == {HeadN(t, n) : t \in SortValuesDesc(s)}

\* groupby("country")["pm25"].mean().dropna(), before it is sorted
CountryMeans(long) == DropNa(GroupCountryMean(long))

\* the position of the smallest value taken for that of the largest
IdxMaxAsMin(s) ==
    LET i == CHOOSE k \in 1..Len(s) :
                 /\ \A j \in 1..Len(s) : RatLeq(s[k].pm25[1], s[j].pm25[1])
                 /\ \A j \in 1..(k - 1) : RatLess(s[k].pm25[1], s[j].pm25[1])
    IN  i

\* idxmax(): the label of the first entry holding the largest value
IdxMax(s) ==
    LET i == CHOOSE k \in 1..Len(s) :
                 /\ \A j \in 1..Len(s) : RatLeq(s[j].pm25[1], s[k].pm25[1])
                 /\ \A j \in 1..(k - 1) : RatLess(s[j].pm25[1], s[k].pm25[1])
    IN  i

\* idxmin(): the label of the first entry holding the smallest value
IdxMin(s) ==
    LET i == CHOOSE k \in 1..Len(s) :
                 /\ \A j \in 1..Len(s) : RatLeq(s[k].pm25[1], s[j].pm25[1])
                 /\ \A j \in 1..(k - 1) : RatLess(s[k].pm25[1], s[j].pm25[1])
    IN  i

\* the KPI block of the overview tab, from the sorted per-country series
Extrema(cm) ==
    IF cm # << >>
    THEN [highest_country |-> cm[IdxMax(cm)].country,
          highest_value   |-> cm[IdxMax(cm)].pm25[1],
          lowest_country  |-> cm[IdxMin(cm)].country,
          lowest_value    |-> cm[IdxMin(cm)].pm25[1],
          global_mean     |-> MeanOfMeans(Pm25(cm))[1],
          num_countries   |-> Cardinality({cm[i].country : i \in 1..Len(cm)})]
    ELSE [highest_country |-> cNA, highest_value |-> Zero,
          lowest_country  |-> cNA, lowest_value  |-> Zero,
          global_mean     |-> Zero, num_countries |-> 0]

\* --------------------------------------------------------------- inputs
cNote == << "n", "o", "t", "e" >>
Y17 == << "2", "0", "1", "7" >>
Y16 == << "2", "0", "1", "6" >>
\* 2017 in Arabic-Indic digits, 17 in fullwidth digits, superscript two
YArabic17 == << "U+0662", "U+0660", "U+0661", "U+0667" >>
YWide17   == << "U+FF11", "U+FF17" >>
YSuper2   == << "U+00B2" >>
Y18 == << "2", "0", "1", "8" >>
Xc == << "X" >>
Yc == << "Y" >>
Zc == << "Z" >>
Ca == << "a" >>
Cb == << "b" >>

T0  == << "0" >>
T4  == << "4" >>
T10 == << "1", "0" >>
TX  == << "x" >>
TEmpty == << >>
TDecimal   == << "4", ".", "5" >>
TNegative  == << "-", "4" >>
TPlus      == << "+", "4" >>
TExponent  == << "1", "e", "1" >>
TNegExp    == << "5", "E", "-", "1" >>
TBlanks    == << " ", "4", " " >>
TZeroPoint == << "0", ".", "0" >>
TNegZero   == << "-", "0" >>
TNoDigits  == << "." >>
TNoExp     == << "1", "e" >>
TLeadPoint == << ".", "5" >>
TEndPoint  == << "4", "." >>
TTwoPoints == << "1", ".", "2", ".", "3" >>
TArabic    == << "U+0664" >>

SeqsUpTo(S, n) == UNION {[1..k -> S] : k \in 0..n}

\* the rows a CSV with this header can hold: a (city, country) of keys, a
\* token of tokens[c] in each year column c, a text in every other column
RowsOver(keys, header, tokens) ==
    LET data  == Range(header) \ {cCity, cCountry}
        years == {c \in data : IsDigit(c)}
    IN  {[city |-> k[1], country |-> k[2],
          cells |-> [c \in data |-> IF IsDigit(c) THEN f[c] ELSE TX]] :
            k \in keys,
            f \in {g \in [years -> UNION {tokens[c] : c \in years}] :
                      \A c \in years : g[c] \in tokens[c]}}

FilesOver(keys, headers, tokens, n) ==
    UNION {{[header |-> h, rows |-> r] :
               r \in SeqsUpTo(RowsOver(keys, h, tokens), n)} : h \in headers}

\* files for the runs of the script: city a exists in both countries, and a
\* (city, country) pair may repeat; readings are positive, negative or zero
FilterFiles(n) ==
    FilesOver({<< Ca, Xc >>, << Cb, Xc >>, << Ca, Yc >>},
              {<< cCity, cCountry, Y17, Y18 >>},
              [c \in {Y17, Y18} |-> IF c = Y17 THEN {T0, T4, TNegative}
                                               ELSE {T0, TDecimal}], n)

\* the cells of the year columns of the files for load_data()
LoadTokens ==
    [c \in {Y16, Y17, Y18, YArabic17, YWide17, YSuper2} |->
        CASE c = Y18 -> {TEmpty, T0, TX, T4, T10}
          [] c = Y17 -> {TDecimal, TNegative, TExponent, TBlanks, TZeroPoint}
          [] c = Y16 -> {TPlus, TNegExp, TNegZero, TNoDigits, TNoExp,
                         TLeadPoint, TEndPoint, TTwoPoints, TArabic}
          [] c = YSuper2 -> {T4}
          [] OTHER -> {T0, T4}]

\* files for load_data(): every kind of cell, year columns out of order, a
\* column that is no year, and year labels in digits outside ASCII
LoadFiles(n) ==
    FilesOver({<< Ca, Xc >>},
              {<< cCity, cCountry, Y18, cNote, Y17 >>,
               << cCity, cCountry, Y16 >>,
               << cCity, cCountry, YWide17, YArabic17 >>,
               << cCity, cCountry, YSuper2 >>},
              LoadTokens, n)

\* the aggregates the ranking is applied to: distinct countries in key
\* order, each with a mean in 1..MaxVal
Aggregates(m) ==
    UNION {{[i \in 1..Len(Sorted(C)) |->
                [country |-> Sorted(C)[i], pm25 |-> << Frac(v[Sorted(C)[i]], 1) >>]] :
               v \in [C -> 1..m]} : C \in SUBSET {Xc, Yc, Zc}}

\* --------------------------------------------------------------- script
NoApp ==
    /\ pc = "off" /\ raw = << >> /\ cache = << >>
    /\ df = << >> /\ df_long = << >> /\ year_cols = << >>
    /\ selected_year = << >> /\ selected_country = << >> /\ selected_city = << >>
    /\ session = << >> /\ city_options = << >>
    /\ df_filtered = << >> /\ df_long_filtered = << >> /\ df_country_filtered = << >>
    /\ country_mean_all_years = << >> /\ kpi = << >> /\ global_trend = << >>
    /\ country_year = << >> /\ top10 = << >>

NoRanking ==
    /\ tn_pc = "off" /\ tn_in = << >> /\ tn_n = 0 /\ tn_out = << >> /\ tn_again = << >>

InitWith(files) ==
    /\ raw \in files
    /\ pc = "start"
    /\ cache = << >>
    /\ df = << >> /\ df_long = << >> /\ year_cols = << >>
    /\ selected_year = << >> /\ selected_country = << >> /\ selected_city = << >>
    /\ session = << >> /\ city_options = << >>
    /\ df_filtered = << >> /\ df_long_filtered = << >> /\ df_country_filtered = << >>
    /\ country_mean_all_years = << >> /\ kpi = << >> /\ global_trend = << >>
    /\ country_year = << >> /\ top10 = << >>
    /\ NoRanking

\* one execution of the script, lines 48-198: loaded is what load_data()
\* returns in this run, year and country are the values of their
\* selectboxes, state is the session's widget state when the run starts.
\* The session keeps the state of the widgets rendered in this run only, so
\* the city selectbox of another country is forgotten.  A sort is a function
\* of its input: where the input of a sort is the one of the previous run,
\* so is its result.
Script(loaded, year, country, state) ==
    LET options  == CityOptions(loaded.df, country)
        city     == Selectbox(state, CityKey(country), << cAll >> \o options)
        filtered == DfFiltered(loaded.df, country, city)
        long     == DfLongAfterFilter(loaded.df_long, filtered)
        wide     == DfAfterFilter(loaded.df, filtered)
        cfilt    == FilterCountry(wide, country)
        cy       == CountryYear(cfilt, year)
    IN  /\ df' = wide
        /\ df_long' = long
        /\ year_cols' = loaded.year_cols
        /\ selected_year' = year
        /\ selected_country' = country
        /\ city_options' = options
        /\ selected_city' = city
        /\ session' = [k \in {CityKey(country)} |-> city]
        /\ df_filtered' = filtered
        /\ df_long_filtered' = Merge(loaded.df_long, filtered)
        /\ df_country_filtered' = cfilt
        /\ country_mean_all_years' \in
               {s \in SortValuesDesc(CountryMeans(long)) :
                   CountryMeans(long) = CountryMeans(df_long)
                       => s = country_mean_all_years}
        /\ kpi' = Extrema(country_mean_all_years')
        /\ global_trend' = GlobalTrend(long)
        /\ country_year' = cy
        /\ top10' \in {t \in TopN(cy, TopCount) : cy = country_year => t = top10}

\* the first run: load_data() reads the file and its result is cached; the
\* selectboxes show their first option.  When load_data() raises, the run
\* stops at line 48 with nothing cached and nothing computed.
FirstRun ==
    /\ pc = "start"
    /\ IF LoadDataRaises(raw)
       THEN /\ pc' = "failed"
            /\ UNCHANGED << cache, df, df_long, year_cols, selected_year,
                            selected_country, selected_city, session, city_options,
                            df_filtered, df_long_filtered, df_country_filtered,
                            country_mean_all_years, kpi, global_trend,
                            country_year, top10 >>
       ELSE /\ pc' = "ready"
            /\ LET loaded == LoadData(raw)
               IN  /\ cache' = loaded
                   /\ Script(loaded, Sorted(Range(loaded.year_cols))[1], cAll, << >>)
    /\ UNCHANGED << raw, tnVars >>

\* the user picks another year: the script runs again
SelectYear(y) ==
    /\ pc = "ready"
    /\ y \in Range(Sorted(Range(year_cols))) /\ y # selected_year
    /\ Script(cache, y, selected_country, session)
    /\ UNCHANGED << pc, raw, cache, tnVars >>

\* the user picks another country: the script runs again
SelectCountry(c) ==
    /\ pc = "ready"
    /\ c \in Range(<< cAll >> \o Countries(df)) /\ c # selected_country
    /\ Script(cache, selected_year, c, session)
    /\ UNCHANGED << pc, raw, cache, tnVars >>

\* the user picks another city in the city selectbox of this run
SelectCity(c) ==
    /\ pc = "ready"
    /\ c \in Range(<< cAll >> \o city_options) /\ c # selected_city
    /\ Script(cache, selected_year, selected_country,
              [k \in {CityKey(selected_country)} |-> c])
    /\ UNCHANGED << pc, raw, cache, tnVars >>

Names == {cAll, Xc, Yc, Zc, Ca, Cb}

Init == InitWith(FilterFiles(MaxRows))

Next ==
    \/ FirstRun
    \/ \E y \in {Y17, Y18} : SelectYear(y)
    \/ \E c \in Names : SelectCountry(c)
    \/ \E c \in Names : SelectCity(c)

Spec == Init /\ [][Next]_vars

\* load_data() on files with every kind of cell
InitLoad == InitWith(LoadFiles(MaxRows))

NextLoad == FirstRun

SpecLoad == InitLoad /\ [][NextLoad]_vars

\* -------------------------------------------------- the ranking, alone
InitTopN ==
    /\ NoApp
    /\ tn_pc = "input"
    /\ tn_in \in Aggregates(MaxVal)
    /\ tn_n \in 0..MaxN
    /\ tn_out = << >> /\ tn_again = << >>

\* top-N of the aggregate
ApplyTopN ==
    /\ tn_pc = "input"
    /\ tn_out' \in TopN(tn_in, tn_n)
    /\ tn_pc' = "once"
    /\ UNCHANGED << appVars, tn_in, tn_n, tn_again >>

\* top-N, with the same N, of the result; the sort is a function of its
\* input, so the same input is ranked the same way again
ReapplyTopN ==
    /\ tn_pc = "once"
    /\ tn_again' \in {t \in TopN(tn_out, tn_n) : tn_out = tn_in => t = tn_out}
    /\ tn_pc' = "twice"
    /\ UNCHANGED << appVars, tn_in, tn_n, tn_out >>

NextTopN == ApplyTopN \/ ReapplyTopN

SpecTopN == InitTopN /\ [][NextTopN]_vars

\* ---------------------------------------------------------------- claims
Ready == pc = "ready"

Pairs(t) == {<< t[i].city, t[i].country >> : i \in 1..Len(t)}

\* how often the row x occurs in the table s
Count(s, x) == Cardinality({i \in 1..Len(s) : s[i] = x})

NoRepeat(s) == \A i, j \in 1..Len(s) : s[i] = s[j] => i = j

\* the cities of the wide table's rows of the selected country
CitiesOfSelection ==
    {df[i].city : i \in {j \in 1..Len(df) :
                           selected_country = cAll \/ df[j].country = selected_country}}

\* C1: after any sequence of selections the city options are exactly the
\* distinct cities of the rows of the selected country (of all rows for
\* "All"), and the selected city is "All" or one of the options.
C1_CityBelongsToCountry ==
    Ready =>
        /\ Range(city_options) = CitiesOfSelection
        /\ NoRepeat(city_options)
        /\ selected_city \in {cAll} \cup Range(city_options)
        /\ selected_city \in {cAll} \cup CitiesOfSelection

\* a city is selected within a country that does not hold every city
C1_Witness ==
    /\ Ready
    /\ selected_country # cAll
    /\ selected_city # cAll
    /\ \E i \in 1..Len(df) : df[i].city \notin Range(city_options)

\* C2: the filtered long table holds each base long row whose (city,
\* country) is a key of the filtered wide table exactly as often as the
\* base long table does, and no other row.
C2_LongFilteredIsRestriction ==
    Ready =>
        \A r \in Range(df_long) \cup Range(df_long_filtered) :
            Count(df_long_filtered, r) =
                IF << r.city, r.country >> \in Pairs(df_filtered)
                THEN Count(df_long, r) ELSE 0

\* C3: the (city, country) pairs of the filtered long table are those of
\* the filtered wide table.
C3_JoinConsistency ==
    Ready => Pairs(df_long_filtered) = Pairs(df_filtered)

\* a city filter that keeps some rows and drops others
C3_Witness ==
    /\ Ready
    /\ selected_city # cAll
    /\ df_filtered # << >>
    /\ Len(df_filtered) < Len(df)
    /\ Pairs(df_long_filtered) # Pairs(df_long)

\* what a raw cell of a year column stands for
Expected(tok) ==
    CASE tok \in {TEmpty, TX, TNoDigits, TNoExp, TTwoPoints, TArabic} -> NaN
      [] tok \in {T0, TZeroPoint, TNegZero} -> NaN
      [] tok \in {T4, TPlus, TBlanks, TEndPoint} -> << [n |-> 4, d |-> 1] >>
      [] tok \in {T10, TExponent} -> << [n |-> 10, d |-> 1] >>
      [] tok = TDecimal -> << [n |-> 9, d |-> 2] >>
      [] tok = TNegative -> << [n |-> -4, d |-> 1] >>
      [] tok \in {TNegExp, TLeadPoint} -> << [n |-> 1, d |-> 2] >>

\* C4: after load_data no value of a year column is 0: a raw value that is
\* 0 or no number is absent, any other number is kept; the same holds for
\* the pm25 values of the long table.
C4_NoZeroAfterLoad ==
    Ready =>
        /\ \A i \in 1..Len(df) : \A c \in Range(year_cols) :
              /\ df[i].cells[c] # << Zero >>
              /\ df[i].cells[c] = Expected(raw.rows[i].cells[c])
        /\ \A k \in 1..Len(df_long) :
              /\ df_long[k].pm25 # << Zero >>
              /\ df_long[k].pm25 # NaN => df_long[k].pm25[1].n # 0

\* a file with a zero and a text next to a negative and a decimal number
C4_Witness ==
    /\ Ready
    /\ \E i \in 1..Len(df) : \E c \in Range(year_cols) :
          raw.rows[i].cells[c] = T0 /\ df[i].cells[c] = NaN
    /\ \E i \in 1..Len(df) : \E c \in Range(year_cols) :
          raw.rows[i].cells[c] = TX /\ df[i].cells[c] = NaN
    /\ \E i \in 1..Len(df) : \E c \in Range(year_cols) :
          raw.rows[i].cells[c] = TNegative /\ df[i].cells[c] # NaN
    /\ \E i \in 1..Len(df) : \E c \in Range(year_cols) :
          raw.rows[i].cells[c] = TDecimal /\ df[i].cells[c] # NaN

\* the year a column label stands for
YearOf(label) ==
    CASE label = Y16 -> 2016 [] label = Y17 -> 2017 [] label = Y18 -> 2018
      [] label = YArabic17 -> 2017 [] label = YWide17 -> 17

\* C5: the long table has len(wide) * len(year_cols) rows, one per wide row
\* and year column, with the wide cell as pm25 (absent where the cell is
\* absent) and the integer value of the label as year.
C5_LongShape ==
    Ready =>
        /\ Len(df_long) = Len(df) * Len(year_cols)
        /\ \A j \in 1..Len(year_cols) : \A i \in 1..Len(df) :
              LET r == df_long[(j - 1) * Len(df) + i]
              IN  /\ r.city = df[i].city
                  /\ r.country = df[i].country
                  /\ r.year = YearOf(year_cols[j])
                  /\ r.pm25 = df[i].cells[year_cols[j]]

\* two rows and two year columns labelled in digits outside ASCII, with an
\* absent and a present cell
C5_Witness ==
    /\ Ready
    /\ Len(df) = 2 /\ year_cols = << YWide17, YArabic17 >>
    /\ df_long[1].year = 17 /\ df_long[Len(df_long)].year = 2017
    /\ \E k \in 1..Len(df_long) : df_long[k].pm25 = NaN
    /\ \E k \in 1..Len(df_long) : df_long[k].pm25 # NaN

\* the rows of the country-filtered wide table with a reading of country c
\* in the selected year
ReadingsOf(c) ==
    {i \in 1..Len(df_country_filtered) :
        /\ df_country_filtered[i].country = c
        /\ df_country_filtered[i].cells[selected_year] # NaN}

RECURSIVE SumYear(_)
SumYear(I) ==
    IF I = {} THEN Zero
    ELSE LET i == CHOOSE x \in I : TRUE
         IN  RatAdd(df_country_filtered[i].cells[selected_year][1], SumYear(I \ {i}))

\* C6: the per-country aggregate of the selected year holds exactly the
\* countries of the country-filtered wide table with a reading in that
\* year, each with the mean of its readings, and no country without one.
C6_CountryYear ==
    Ready =>
        /\ df_country_filtered =
               SelectSeq(df, LAMBDA r : selected_country = cAll \/ r.country = selected_country)
        /\ {country_year[k].country : k \in 1..Len(country_year)} =
               {c \in {df_country_filtered[i].country : i \in 1..Len(df_country_filtered)} :
                   ReadingsOf(c) # {}}
        /\ NoRepeat([k \in 1..Len(country_year) |-> country_year[k].country])
        /\ \A k \in 1..Len(country_year) :
              LET e == country_year[k]
                  I == ReadingsOf(e.country)
              IN  /\ e.pm25 # NaN
                  /\ e.pm25[1].n * Cardinality(I) * SumYear(I).d
                         = SumYear(I).n * e.pm25[1].d

\* a country without a reading in the selected year is left out while
\* another country is kept
C6_Witness ==
    /\ Ready
    /\ country_year # << >>
    /\ \E i \in 1..Len(df_country_filtered) :
          ReadingsOf(df_country_filtered[i].country) = {}

\* C7: top-N has at most min(N, number of countries) entries, in descending
\* order of value, and no country left out has a larger mean than one kept.
C7_TopNBound ==
    tn_pc # "input" =>
        /\ Len(tn_out) <= tn_n
        /\ Len(tn_out) <= Len(tn_in)
        /\ Range(tn_out) \subseteq Range(tn_in)
        /\ NoRepeat(tn_out)
        /\ \A i \in 1..(Len(tn_out) - 1) :
              RatLeq(tn_out[i + 1].pm25[1], tn_out[i].pm25[1])
        /\ \A e \in Range(tn_in) \ Range(tn_out) : \A k \in Range(tn_out) :
              RatLeq(e.pm25[1], k.pm25[1])

\* a ranking that cuts: more countries than N, of different means
C7_Witness ==
    /\ tn_pc = "once"
    /\ Len(tn_out) = tn_n
    /\ tn_n >= 2
    /\ Len(tn_in) > tn_n
    /\ \E e \in Range(tn_in) : e.pm25 # tn_out[1].pm25

\* C8: top-N applied to its own result returns the same sequence, also
\* when several countries have equal means.
C8_TopNIdempotent ==
    tn_pc = "twice" => tn_again = tn_out

\* top-N applied twice to an aggregate of more than N countries that is
\* not in order: the first sort has put two countries of equal means in
\* the reverse of their input order, and the second leaves them there
C8_Witness ==
    /\ tn_pc = "twice"
    /\ Len(tn_in) > tn_n
    /\ Len(tn_out) = 2
    /\ tn_out[1].pm25 = tn_out[2].pm25
    /\ \E i, j \in 1..Len(tn_in) : i < j /\ tn_in[i] = tn_out[2] /\ tn_in[j] = tn_out[1]
    /\ tn_again = tn_out

\* the readings of country c in the base long table
LongReadings(c) ==
    {k \in 1..Len(df_long) : df_long[k].country = c /\ df_long[k].pm25 # NaN}

RECURSIVE SumLong(_)
SumLong(I) ==
    IF I = {} THEN Zero
    ELSE LET k == CHOOSE x \in I : TRUE
         IN  RatAdd(df_long[k].pm25[1], SumLong(I \ {k}))

\* the all-years mean of a country with a reading
LongMean(c) ==
    LET t == SumLong(LongReadings(c))
    IN  Frac(t.n, t.d * Cardinality(LongReadings(c)))

MeasuredCountries ==
    {c \in {df_long[k].country : k \in 1..Len(df_long)} : LongReadings(c) # {}}

RECURSIVE SumLongMeans(_)
SumLongMeans(C) ==
    IF C = {} THEN Zero
    ELSE LET c == CHOOSE x \in C : TRUE IN RatAdd(LongMean(c), SumLongMeans(C \ {c}))

\* C9: with no country with a reading the summary is the sentinel ("N/A",
\* 0.0, 0); otherwise it names a country of maximum and one of minimum
\* all-years mean, the mean of the per-country means and the number of
\* countries with a reading.
C9_Extrema ==
    Ready =>
        IF MeasuredCountries = {}
        THEN kpi = [highest_country |-> cNA, highest_value |-> Zero,
                    lowest_country |-> cNA, lowest_value |-> Zero,
                    global_mean |-> Zero, num_countries |-> 0]
        ELSE /\ kpi.highest_country \in MeasuredCountries
             /\ kpi.highest_value = LongMean(kpi.highest_country)
             /\ \A c \in MeasuredCountries : RatLeq(LongMean(c), kpi.highest_value)
             /\ kpi.lowest_country \in MeasuredCountries
             /\ kpi.lowest_value = LongMean(kpi.lowest_country)
             /\ \A c \in MeasuredCountries : RatLeq(kpi.lowest_value, LongMean(c))
             /\ kpi.num_countries = Cardinality(MeasuredCountries)
             /\ kpi.global_mean.n * SumLongMeans(MeasuredCountries).d * kpi.num_countries
                    = SumLongMeans(MeasuredCountries).n * kpi.global_mean.d

\* rows are loaded and none of them has a reading
C9_Witness ==
    /\ Ready
    /\ Len(df) = MaxRows
    /\ MeasuredCountries = {}
    /\ kpi.highest_country = cNA

\* C10: the base tables stay what load_data() returned, and the global
\* KPIs and the global trend are the same after every selection.
C10_BaseTablesFrozen ==
    [][pc' = "ready" =>
          /\ df' = cache'.df
          /\ df_long' = cache'.df_long
          /\ pc = "ready" =>
                /\ df' = df /\ df_long' = df_long
                /\ kpi' = kpi /\ global_trend' = global_trend]_vars

\* a selection whose filtered views are smaller than the base tables
C10_Witness ==
    /\ Ready
    /\ selected_city # cAll
    /\ Len(df_filtered) < Len(df)
    /\ Len(df_long_filtered) < Len(df_long)
    /\ kpi.num_countries = 2

=============================================================================
